---- MODULE Spec2Model ----
(***************************************************************************)
(* Model of pa_functions/pa_metrics.py: calculate_turnover and             *)
(* calculate_tenure applied to an in-memory table of HR records.           *)
(*                                                                         *)
(* Text values whose ORDER the code depends on (dates, Ano, Mes, group     *)
(* values, keys) are sequences of ASCII codes, so that string comparison,  *)
(* concatenation and date parsing are computed and not assumed.  Status    *)
(* and headcount-type codes are only ever tested for equality and are      *)
(* plain strings.  Rates are held in units of 1/10000 (4 decimals).        *)
(* Medians are held doubled (units of half a month).                       *)
(***************************************************************************)
EXTENDS Integers, Sequences, FiniteSets, Bags, TLC

VARIABLES df, loaded, called, args, raised, out, sheets

vars == <<df, loaded, called, args, raised, out, sheets>>

----------------------------------------------------------------------------
(* Text helpers *)

Ascii == [dash |-> 45, slash |-> 47, zero |-> 48, nine |-> 57, A |-> 65]

Digit(n) == Ascii.zero + n

TwoDigits(n) == <<Digit(n \div 10), Digit(n % 10)>>

FourDigits(n) ==
    <<Digit(n \div 1000), Digit((n \div 100) % 10), Digit((n \div 10) % 10), Digit(n % 10)>>

\* the text 'dd/mm/yyyy'
DayFirst(d, m, y) ==
    TwoDigits(d) \o <<Ascii.slash>> \o TwoDigits(m) \o <<Ascii.slash>> \o FourDigits(y)

\* str(n) of a non-negative integer
RECURSIVE IntToStr(_)
IntToStr(n) ==
    IF n < 10 THEN <<Digit(n)>> ELSE IntToStr(n \div 10) \o <<Digit(n % 10)>>

\* Python/pandas ordering of two strings: lexicographic by code point
RECURSIVE StrLess(_, _)
StrLess(a, b) ==
    IF b = <<>> THEN FALSE
    ELSE IF a = <<>> THEN TRUE
    ELSE IF Head(a) # Head(b) THEN Head(a) < Head(b)
    ELSE StrLess(Tail(a), Tail(b))

\* ordering of index tuples (tuples of strings or of integers-as-strings)
RECURSIVE TupleLess(_, _)
TupleLess(x, y) ==
    IF x = <<>> \/ y = <<>> THEN FALSE
    ELSE IF Head(x) # Head(y) THEN StrLess(Head(x), Head(y))
    ELSE TupleLess(Tail(x), Tail(y))

\* the elements of a set of distinct index tuples in ascending order
RECURSIVE SortIndex(_)
SortIndex(S) ==
    IF S = {} THEN <<>>
    ELSE LET m == CHOOSE x \in S : \A y \in S \ {x} : TupleLess(x, y)
         IN  <<m>> \o SortIndex(S \ {m})

----------------------------------------------------------------------------
(* pd.to_datetime(..., dayfirst=True) on one value *)

NaT == [year |-> 0, month |-> 0, day |-> 0]

IsDigit(c) == c >= Ascii.zero /\ c <= Ascii.nine

RECURSIVE Num(_)
Num(s) == IF s = <<>> THEN 0 ELSE 10 * Num(SubSeq(s, 1, Len(s) - 1)) + (s[Len(s)] - Ascii.zero)

IsLeap(y) == (y % 4 = 0 /\ y % 100 # 0) \/ y % 400 = 0

DaysInMonth(m, y) ==
    IF m = 2 THEN (IF IsLeap(y) THEN 29 ELSE 28)
    ELSE IF m \in {4, 6, 9, 11} THEN 30 ELSE 31

to_datetime(s) ==
    IF /\ Len(s) = 10
       /\ s[3] = Ascii.slash /\ s[6] = Ascii.slash
       /\ \A i \in {1, 2, 4, 5, 7, 8, 9, 10} : IsDigit(s[i])
    THEN LET d == Num(SubSeq(s, 1, 2))
             m == Num(SubSeq(s, 4, 5))
             y == Num(SubSeq(s, 7, 10))
         IN  IF m >= 1 /\ m <= 12 /\ d >= 1 /\ d <= DaysInMonth(m, y) /\ y >= 1
             THEN [year |-> y, month |-> m, day |-> d]
             ELSE NaT
    ELSE NaT

\* datetime64 values are ordered as integers; this one counts in days of a
\* 31-day-month calendar, which preserves the chronological order
TsOrd(t) == (t.year * 12 + (t.month - 1)) * 31 + (t.day - 1)

\* Timestamp.astype(str): 'yyyy-mm-dd'
TsToStr(t) ==
    FourDigits(t.year) \o <<Ascii.dash>> \o TwoDigits(t.month) \o <<Ascii.dash>> \o TwoDigits(t.day)

----------------------------------------------------------------------------
(* Tables.  An input table is a bag of rows: both functions only filter,   *)
(* group and aggregate the input, so the order of its rows is not state.  *)

RECURSIVE SumOver(_, _)
SumOver(B, S) ==
    IF S = {} THEN 0
    ELSE LET r == CHOOSE x \in S : TRUE IN B[r] + SumOver(B, S \ {r})

\* df[mask]
Filter(B, Keep(_)) == [r \in {x \in DOMAIN B : Keep(x)} |-> B[r]]

\* number of rows of B satisfying P
CountRows(B, P(_)) == SumOver(B, {x \in DOMAIN B : P(x)})

\* sort_values with ascending=False
RECURSIVE sort_values_Descending(_, _)
sort_values_Descending(S, by) ==
    IF S = {} THEN {<<>>}
    ELSE LET maxs == {x \in S : \A y \in S : TsOrd(x[by]) >= TsOrd(y[by])}
         IN  UNION {{<<m>> \o t : t \in sort_values_Descending(S \ {m}, by)} : m \in maxs}

\* DataFrame.sort_values(by=...) of a set of distinct rows on a datetime
\* column: the default algorithm is not stable, so rows with equal keys may
\* come out in any order
RECURSIVE sort_values(_, _)
sort_values(S, by) ==
    IF S = {} THEN {<<>>}
    ELSE LET mins == {x \in S : \A y \in S : TsOrd(x[by]) <= TsOrd(y[by])}
         IN  UNION {{<<m>> \o t : t \in sort_values(S \ {m}, by)} : m \in mins}

----------------------------------------------------------------------------
(* calculate_turnover *)

\* numpy round(4) of num/den, in units of 1/10000: nearest, ties to even
Round4(num, den) ==
    LET q == (10000 * num) \div den
        r == (10000 * num) % den
    IN  IF 2 * r < den THEN q
        ELSE IF 2 * r > den THEN q + 1
        ELSE IF q % 2 = 0 THEN q ELSE q + 1

\* a missing value of a numeric column (counts, rates and medians are never
\* negative)
NaN == -1

\* with fillna(0) left out, 0/0 stays NaN
Rate_NoFill(num, den) == IF den = 0 THEN NaN ELSE Round4(num, den)

\* (x / HC_Ref).fillna(0).round(4): 0/0 is NaN and is filled with 0; a
\* positive numerator over 0 cannot occur, HC_Ref being a sum that includes x
Rate(num, den) == IF den = 0 THEN 0 ELSE Round4(num, den)

\* line 29
Resc_Total(Inv, Vol) == Inv + Vol

\* line 30
Resc_Total_Red(total, Red) == total + Red

\* the reference headcount without the active rows
HC_Ref_ExitsOnly(total_red, Atv) == total_red

\* line 31
HC_Ref(total_red, Atv) == total_red + Atv

\* line 27 without its test of the headcount type
TurnoverFilter_KeepEntrada(d, status_column, hc_type_column) ==
    Filter(d, LAMBDA r : r[status_column] # "New")

\* line 27 without its test of the status
TurnoverFilter_KeepNew(d, status_column, hc_type_column) ==
    Filter(d, LAMBDA r : r[hc_type_column] # "Entrada")

\* the rows kept by line 27
TurnoverFilter(d, status_column, hc_type_column) ==
    Filter(d, LAMBDA r : r[hc_type_column] # "Entrada" /\ r[status_column] # "New")

\* the index tuple of an input row in the pivot of line 28
PivotKey(r, group, date_column) == <<r[date_column], r.Ano, r.Mes, r[group]>>

\* lines 28-36: the pivot row of index tuple ix, counts by status (a status
\* column that exists but has no row in this group is filled with 0)
PivotRow(f, ix, group, status_column, date_column) ==
    LET Cell(s) == CountRows(f, LAMBDA r : PivotKey(r, group, date_column) = ix
                                            /\ r[status_column] = s)
        Atv == Cell("Atv")
        Inv == Cell("Inv")
        Red == Cell("Red")
        Vol == Cell("Vol")
        total == Resc_Total(Inv, Vol)
        total_red == Resc_Total_Red(total, Red)
        hc_ref == HC_Ref(total_red, Atv)
    IN  (date_column :> ix[1]) @@
        [Ano |-> ix[2], Mes |-> ix[3], Perimetro |-> ix[4],
         Atv |-> Atv, Resc_Inv |-> Inv, Resc_Red |-> Red, Resc_Vol |-> Vol,
         Resc_Total |-> total, HC_Ref |-> hc_ref,
         TO_Total |-> Rate(total, hc_ref),
         TO_Vol |-> Rate(Vol, hc_ref),
         TO_Inv |-> Rate(Inv, hc_ref),
         TO_Red |-> Rate(Red, hc_ref)] @@
        ("Resc_Total+Red" :> total_red) @@
        ("TO_Total+Red" :> Rate(total_red, hc_ref))

\* groupby(['Ano', group])[col].cumsum() at position i of the pivot, whose
\* rows are in index order: the sum of col over the rows of the same
\* (Ano, group) partition at positions 1..i
RECURSIVE SumCol(_, _, _)
SumCol(rows, J, col) ==
    IF J = {} THEN 0
    ELSE LET j == CHOOSE x \in J : TRUE IN rows[j][col] + SumCol(rows, J \ {j}, col)

CumSum(rows, i, col) ==
    SumCol(rows, {j \in 1..i : /\ rows[j].Ano = rows[i].Ano
                               /\ rows[j].Perimetro = rows[i].Perimetro}, col)

\* lines 37-46 and 49: the YTD columns and the key of the row at position i
WithYtd(rows, i) ==
    rows[i] @@
    [Resc_Total_YTD |-> CumSum(rows, i, "Resc_Total"),
     Resc_Inv_YTD |-> CumSum(rows, i, "Resc_Inv"),
     Resc_Vol_YTD |-> CumSum(rows, i, "Resc_Vol"),
     Resc_Red_YTD |-> CumSum(rows, i, "Resc_Red"),
     TO_Total_YTD |-> CumSum(rows, i, "TO_Total"),
     TO_Inv_YTD |-> CumSum(rows, i, "TO_Inv"),
     TO_Red_YTD |-> CumSum(rows, i, "TO_Red"),
     TO_Vol_YTD |-> CumSum(rows, i, "TO_Vol"),
     Key |-> rows[i].Perimetro \o rows[i].Ano \o rows[i].Mes] @@
    ("Resc_Total+Red_YTD" :> CumSum(rows, i, "Resc_Total+Red")) @@
    ("TO_Total+Red_YTD" :> CumSum(rows, i, "TO_Total+Red"))

\* line 20: the fixed output column set
TurnoverColumns ==
    {"Key", "Ano", "Mes", "Data", "Perimetro", "Atv", "Resc_Inv", "Resc_Red", "Resc_Vol",
     "Resc_Total", "Resc_Total+Red", "HC_Ref", "TO_Inv", "TO_Vol", "TO_Total", "TO_Red",
     "TO_Total+Red", "Resc_Inv_YTD", "Resc_Red_YTD", "Resc_Vol_YTD", "Resc_Total_YTD",
     "Resc_Total+Red_YTD", "TO_Inv_YTD", "TO_Vol_YTD", "TO_Total_YTD", "TO_Red_YTD",
     "TO_Total+Red_YTD"}

Ok(t) == [raised |-> "none", table |-> t]

Raise(e) == [raised |-> e, table |-> <<>>]

\* lines 28-36: the pivot, its rows in ascending order of the index
RECURSIVE PivotRows(_, _, _, _, _)
PivotRows(f, index, group, status_column, date_column) ==
    IF index = <<>> THEN <<>>
    ELSE <<PivotRow(f, Head(index), group, status_column, date_column)>>
         \o PivotRows(f, Tail(index), group, status_column, date_column)

\* lines 50-53: parse the dates, sort by them, keep the output columns
SortAndSelect(pivot) ==
    LET dated == {r @@ [Sort_Date |-> to_datetime(r.Data)] : r \in pivot}
    IN  IF \E r \in dated : r.Sort_Date = NaT
        THEN {Raise("ValueError")}
        ELSE {Ok([i \in DOMAIN t |-> [c \in TurnoverColumns |-> t[i][c]]]) :
                t \in sort_values(dated, "Sort_Date")}

\* The set of outcomes of one call: the exception raised, or the table
\* returned (a sequence of rows).
calculate_turnover(d, group, status_column, hc_type_column, date_column) ==
    LET f == TurnoverFilter(d, status_column, hc_type_column)
        index == SortIndex({PivotKey(r, group, date_column) : r \in DOMAIN f})
        present == {r[status_column] : r \in DOMAIN f}
        rows == PivotRows(f, index, group, status_column, date_column)
    IN  IF \E c \in {"Inv", "Vol", "Red", "Atv"} : c \notin present
        THEN {Raise("KeyError")}                       \* lines 29-31
        ELSE IF date_column # "Data"
        THEN {Raise("KeyError")}                       \* line 50
        ELSE SortAndSelect({WithYtd(rows, i) : i \in DOMAIN rows})

----------------------------------------------------------------------------
(* calculate_tenure *)

\* the k-th smallest of the values of bag V (a function value -> count)
Kth(V, k) ==
    CHOOSE v \in DOMAIN V :
        /\ SumOver(V, {w \in DOMAIN V : w <= v}) >= k
        /\ SumOver(V, {w \in DOMAIN V : w < v}) < k

\* aggfunc="median", doubled: the middle value, or the sum of the two middle
\* values (their mean, doubled) when the count is even; NaN for no values
Median2(V) ==
    LET n == SumOver(V, DOMAIN V)
    IN  IF n = 0 THEN NaN
        ELSE IF n % 2 = 1 THEN 2 * Kth(V, (n + 1) \div 2)
        ELSE Kth(V, n \div 2) + Kth(V, n \div 2 + 1)

\* line 95 with only 'Atv' classified as active
Atv_Resc_AtvOnly(r, status_column) ==
    IF r[status_column] = "Atv" THEN "Atv" ELSE "Resc"

\* line 95
Atv_Resc(r, status_column) ==
    IF r[status_column] = "Atv" \/ r[status_column] = "New" THEN "Atv" ELSE "Resc"

\* lines 92-94: the rows kept, the unparseable dates being coerced to NaT
\* and dropped
TenureFilter(d, hc_type_column, date_column) ==
    Filter(d, LAMBDA r : r[hc_type_column] # "Entrada"
                         /\ to_datetime(r[date_column]) # NaT)

\* lines 96-97: the Tenure values of bucket b in the group of index <<ts, g>>
TenureValues(f, ts, g, b, group, status_column, date_column) ==
    LET rs == {r \in DOMAIN f : /\ to_datetime(r[date_column]) = ts
                                /\ r[group] = g
                                /\ Atv_Resc(r, status_column) = b}
        vals == {r.Tenure : r \in rs}
    IN  [v \in vals |-> SumOver(f, {r \in rs : r.Tenure = v})]

calculate_tenure(d, group, status_column, hc_type_column, date_column) ==
    LET f == TenureFilter(d, hc_type_column, date_column)
        index == {<<to_datetime(r[date_column]), r[group]>> : r \in DOMAIN f}
        present == {Atv_Resc(r, status_column) : r \in DOMAIN f}
        Median(ix, b) ==
            Median2(TenureValues(f, ix[1], ix[2], b, group, status_column, date_column))
        tenure == {(date_column :> ix[1]) @@
                   [Perimetro |-> ix[2],
                    Meses_Mediana_Atv |-> Median(ix, "Atv"),
                    Meses_Mediana_Resc |-> Median(ix, "Resc")] : ix \in index}
        \* lines 98-103
        Final(r) ==
            (date_column :> TsToStr(r[date_column])) @@
            [Key |-> r.Perimetro \o IntToStr(r[date_column].year)
                                 \o IntToStr(r[date_column].month),
             Ano |-> r[date_column].year,
             Mes |-> r[date_column].month,
             Perimetro |-> r.Perimetro,
             Meses_Mediana_Atv |-> r.Meses_Mediana_Atv,
             Meses_Mediana_Resc |-> r.Meses_Mediana_Resc]
    IN  IF "Atv" \notin present \/ "Resc" \notin present
        THEN {Raise("KeyError")}                       \* line 103
        ELSE {Ok([i \in DOMAIN t |-> Final(t[i])]) :
                t \in sort_values(tenure, date_column)}

\* the rows of the tables of a list, one table after the other
RECURSIVE Rows(_)
Rows(tables) ==
    IF tables = <<>> THEN <<>> ELSE Head(tables) \o Rows(Tail(tables))

\* pd.concat followed by drop_duplicates: a row equal to an earlier one
\* is left out
concat_DropDuplicates(tables) ==
    LET all == Rows(tables)
        kept[k \in 0..Len(all)] ==
            IF k = 0 THEN <<>>
            ELSE IF \E j \in 1..(k - 1) : all[j] = all[k]
                 THEN kept[k - 1]
                 ELSE Append(kept[k - 1], all[k])
    IN  IF tables = <<>> THEN Raise("ValueError") ELSE Ok(kept[Len(all)])

\* pd.concat(tables, ignore_index=True), lines 74 and 124: the tables have
\* the same columns, so the result is their rows in list order under a
\* fresh 0..n-1 index; pandas raises ValueError ('No objects to
\* concatenate') on an empty list
concat(tables) ==
    IF tables = <<>> THEN Raise("ValueError") ELSE Ok(Rows(tables))

\* line 73: the list comprehension calls calculate_turnover on the same df
\* for each grouping column in list order; the first call that raises ends
\* the comprehension with its error
RECURSIVE tab_turnover_list(_, _, _, _, _)
tab_turnover_list(d, group_type, status_column, hc_type_column, date_column) ==
    IF group_type = <<>> THEN {Ok(<<>>)}
    ELSE UNION {
        IF first.raised # "none" THEN {first}
        ELSE {IF rest.raised # "none" THEN rest
              ELSE Ok(<<first.table>> \o rest.table) :
                rest \in tab_turnover_list(d, Tail(group_type), status_column,
                                           hc_type_column, date_column)} :
        first \in calculate_turnover(d, Head(group_type), status_column,
                                     hc_type_column, date_column)}

\* lines 56-74, with group_type given (the default list of lines 70-71
\* names ten columns of the production sheet)
make_turnover_table(d, group_type, status_column, hc_type_column, date_column) ==
    {IF l.raised # "none" THEN l ELSE concat(l.table) :
        l \in tab_turnover_list(d, group_type, status_column, hc_type_column,
                                date_column)}

\* line 123: as line 73, with calculate_tenure; each call filters into a
\* copy (line 92) before it assigns the parsed dates (line 93), so the
\* caller's df is the same for every call
RECURSIVE tab_tenure_list(_, _, _, _, _)
tab_tenure_list(d, group_type, status_column, hc_type_column, date_column) ==
    IF group_type = <<>> THEN {Ok(<<>>)}
    ELSE UNION {
        IF first.raised # "none" THEN {first}
        ELSE {IF rest.raised # "none" THEN rest
              ELSE Ok(<<first.table>> \o rest.table) :
                rest \in tab_tenure_list(d, Tail(group_type), status_column,
                                         hc_type_column, date_column)} :
        first \in calculate_tenure(d, Head(group_type), status_column,
                                   hc_type_column, date_column)}

\* lines 106-124, with group_type given
make_tenure_table(d, group_type, status_column, hc_type_column, date_column) ==
    {IF l.raised # "none" THEN l ELSE concat(l.table) :
        l \in tab_tenure_list(d, group_type, status_column, hc_type_column,
                              date_column)}

----------------------------------------------------------------------------
(* Inputs *)

MaxRows == 2

\* reporting dates as 'dd/mm/yyyy' texts: two days of one month, a later
\* month whose text sorts first, and a day that does not exist
Dates == {DayFirst(28, 1, 2023), DayFirst(31, 1, 2023), DayFirst(28, 2, 2023),
          DayFirst(31, 2, 2023)}

Groups == {<<Ascii.A>>, <<Ascii.A + 1>>}

\* status codes of the appended records: active, two kinds of exit, newly
\* added, and a code outside the four the turnover counts ('Red' comes with
\* the snapshot)
Statuses == {"Atv", "Inv", "Vol", "New", "Other"}

\* months in position, by status code
TenureOf == [Atv |-> 2, Inv |-> 1, Red |-> 5, Vol |-> 3, New |-> 7, Other |-> 8]

\* one record of the 'Headcount' sheet; Ano and Mes are the year and month
\* texts of the reporting date, and every company is under the one VP 'V'
Record(date, g, status, hc) ==
    [Data |-> date, Ano |-> SubSeq(date, 7, 10), Mes |-> SubSeq(date, 4, 5),
     Company |-> g, VP |-> <<Ascii.A + 21>>, Tabela |-> status, Tipo_HC |-> hc,
     Tenure |-> TenureOf[status]]

\* (status, headcount type) of the appended records
Kinds == (Statuses \X {"IC"}) \cup {<<"Atv", "Entrada">>}

Records == {Record(date, g, k[1], k[2]) : date \in Dates, g \in Groups, k \in Kinds}

\* a reporting period in which every status code occurs
Snapshot ==
    LET R(s) == Record(DayFirst(31, 1, 2023), <<Ascii.A>>, s, "IC")
    IN  SetToBag({R("Atv"), R("Inv"), R("Red"), R("Vol")})

\* the default column selectors of lines 4, 56, 76 and 106, for one grouping
\* column
DefaultArgs ==
    [group_type |-> <<"Company">>, status_column |-> "Tabela",
     hc_type_column |-> "Tipo_HC", date_column |-> "Data"]

\* no export_to_sheets call made
NoExport == [status |-> "idle", n_exports |-> 0, done |-> <<>>]

Init ==
    /\ df \in {EmptyBag, Snapshot}
    /\ loaded = 0
    /\ called = "none"
    /\ args = DefaultArgs
    /\ raised = "none"
    /\ out = <<>>
    /\ sheets = NoExport

AddRow(r) ==
    /\ called = "none"
    /\ loaded < MaxRows
    /\ df' = df (+) SetToBag({r})
    /\ loaded' = loaded + 1
    /\ UNCHANGED <<called, args, raised, out, sheets>>

CalculateTurnover ==
    /\ called = "none"
    /\ \E o \in calculate_turnover(df, "Company", "Tabela", "Tipo_HC", "Data") :
          /\ raised' = o.raised
          /\ out' = o.table
    /\ called' = "calculate_turnover"
    /\ UNCHANGED <<df, loaded, args, sheets>>

CalculateTenure ==
    /\ called = "none"
    /\ \E o \in calculate_tenure(df, "Company", "Tabela", "Tipo_HC", "Data") :
          /\ raised' = o.raised
          /\ out' = o.table
    /\ called' = "calculate_tenure"
    /\ UNCHANGED <<df, loaded, args, sheets>>

Next ==
    \/ \E r \in Records : AddRow(r)
    \/ CalculateTurnover
    \/ CalculateTenure

Spec == Init /\ [][Next]_vars

\* longest list of grouping columns passed to the make_* functions
MaxGroups == 2

\* the grouping columns of the input table
GroupColumns == {"Company", "VP"}

\* the lists of grouping columns, the empty list and repeats included
GroupLists == UNION {[1..n -> GroupColumns] : n \in 0..MaxGroups}

\* the records appended before a make_* call: two months, two companies,
\* an active and an exited employee, and one row with a day that does not
\* exist
FanoutRecords ==
    {Record(date, g, s, "IC") :
        date \in {DayFirst(31, 1, 2023), DayFirst(28, 2, 2023)},
        g \in Groups, s \in {"Atv", "Vol"}}
    \cup {Record(DayFirst(31, 2, 2023), <<Ascii.A>>, "Atv", "IC")}

MakeTurnoverTable(group_type) ==
    /\ called = "none"
    /\ \E o \in make_turnover_table(df, group_type, "Tabela", "Tipo_HC", "Data") :
        /\ called' = "make_turnover_table"
        /\ args' = [DefaultArgs EXCEPT !.group_type = group_type]
        /\ raised' = o.raised
        /\ out' = o.table
    /\ UNCHANGED <<df, loaded, sheets>>

MakeTenureTable(group_type) ==
    /\ called = "none"
    /\ \E o \in make_tenure_table(df, group_type, "Tabela", "Tipo_HC", "Data") :
        /\ called' = "make_tenure_table"
        /\ args' = [DefaultArgs EXCEPT !.group_type = group_type]
        /\ raised' = o.raised
        /\ out' = o.table
    /\ UNCHANGED <<df, loaded, sheets>>

NextFanout ==
    \/ \E r \in FanoutRecords : AddRow(r)
    \/ \E group_type \in GroupLists : MakeTurnoverTable(group_type)
    \/ \E group_type \in GroupLists : MakeTenureTable(group_type)

SpecFanout == Init /\ [][NextFanout]_vars

\* the column selectors a caller can pass: each of the four columns under
\* its default name or under another one
Selectors ==
    {[group_type |-> <<g>>, status_column |-> s, hc_type_column |-> h,
      date_column |-> t] :
        g \in {"Company", "Area"}, s \in {"Tabela", "Status"},
        h \in {"Tipo_HC", "Tipo"}, t \in {"Data", "Dia"}}

\* the input table with its group, status, headcount-type and date columns
\* under the names of the selectors, cell values unchanged
RenameColumns(d, names) ==
    BagOfAll(LAMBDA r :
                (names.group_type[1] :> r.Company) @@
                (names.status_column :> r.Tabela) @@
                (names.hc_type_column :> r.Tipo_HC) @@
                (names.date_column :> r.Data) @@
                [Ano |-> r.Ano, Mes |-> r.Mes, VP |-> r.VP, Tenure |-> r.Tenure],
             d)

\* calculate_turnover called with the selectors that name the columns of
\* its input table
CalculateTurnoverWith(names) ==
    /\ called = "none"
    /\ \E o \in calculate_turnover(RenameColumns(df, names), names.group_type[1],
                                   names.status_column, names.hc_type_column,
                                   names.date_column) :
        /\ called' = "calculate_turnover"
        /\ args' = names
        /\ raised' = o.raised
        /\ out' = o.table
    /\ UNCHANGED <<df, loaded, sheets>>

NextColumns ==
    \/ \E r \in Records : AddRow(r)
    \/ \E names \in Selectors : CalculateTurnoverWith(names)

SpecColumns == Init /\ [][NextColumns]_vars

----------------------------------------------------------------------------
(* export_to_sheets, pa_apis.py lines 108-186 *)

\* longest list of destinations passed to export_to_sheets
MaxSheets == 3

\* the answers of the Sheets service to the four requests made for one
\* destination: TRUE where the request succeeds, FALSE where it raises
Responses ==
    [open_by_key : BOOLEAN, worksheet : BOOLEAN, batch_clear : BOOLEAN,
     update : BOOLEAN]

\* lines 128-162: the call starts on a list of n_exports destinations
ExportToSheets(n_exports) ==
    /\ sheets.status = "idle"
    /\ sheets' = [status |-> "running", n_exports |-> n_exports, done |-> <<>>]
    /\ UNCHANGED <<df, loaded, called, args, raised, out>>

\* lines 164-181: one pass of the loop. open_by_key and worksheet are called
\* outside any try, so their exception leaves the function; the exceptions
\* of batch_clear and update are caught and printed, and update is called
\* whether or not batch_clear succeeded
ExportDestination(resp) ==
    /\ sheets.status = "running"
    /\ Len(sheets.done) < sheets.n_exports
    /\ LET opened == resp.open_by_key
           selected == opened /\ resp.worksheet
           cleared == selected /\ resp.batch_clear
           written == selected /\ resp.update
           printed ==
               (IF selected /\ ~resp.batch_clear
                THEN <<"Error clearing interval">> ELSE <<>>) \o
               (IF selected /\ ~resp.update
                THEN <<"Error updating interval">> ELSE <<>>)
           destiny == [opened |-> opened, selected |-> selected,
                       cleared |-> cleared, written |-> written,
                       printed |-> printed]
       IN  sheets' = [sheets EXCEPT
                        !.done = Append(@, destiny),
                        !.status = IF selected THEN "running" ELSE "raised"]
    /\ UNCHANGED <<df, loaded, called, args, raised, out>>

\* lines 183-186: the loop is over and the call returns None
ExportReturn ==
    /\ sheets.status = "running"
    /\ Len(sheets.done) = sheets.n_exports
    /\ sheets' = [sheets EXCEPT !.status = "returned"]
    /\ UNCHANGED <<df, loaded, called, args, raised, out>>

NextExport ==
    \/ \E n_exports \in 0..MaxSheets : ExportToSheets(n_exports)
    \/ \E resp \in Responses : ExportDestination(resp)
    \/ ExportReturn

SpecExport == Init /\ [][NextExport]_vars

----------------------------------------------------------------------------
(* Properties *)

Returned(fn) == called = fn /\ raised = "none"

\* C1: whenever calculate_turnover returns, every output row has
\* HC_Ref = Atv + Resc_Inv + Resc_Vol + Resc_Red, each of the four counts being
\* the number of filtered input rows (headcount type not 'Entrada', status not
\* 'New') with that status in the row's (date, Ano, Mes, group value), and
\* Resc_Total = Resc_Inv + Resc_Vol, Resc_Total+Red = Resc_Total + Resc_Red.
C1_ReferenceHeadcount ==
    Returned("calculate_turnover") =>
        \A i \in DOMAIN out :
            LET o == out[i]
                N(s) == CountRows(df, LAMBDA r :
                            /\ r.Tipo_HC # "Entrada" /\ r.Tabela # "New"
                            /\ r.Tabela = s
                            /\ r.Data = o.Data /\ r.Ano = o.Ano /\ r.Mes = o.Mes
                            /\ r.Company = o.Perimetro)
            IN  /\ o.Atv = N("Atv") /\ o.Resc_Inv = N("Inv")
                /\ o.Resc_Vol = N("Vol") /\ o.Resc_Red = N("Red")
                /\ o.HC_Ref = o.Atv + o.Resc_Inv + o.Resc_Vol + o.Resc_Red
                /\ o.Resc_Total = o.Resc_Inv + o.Resc_Vol
                /\ o["Resc_Total+Red"] = o.Resc_Total + o.Resc_Red

\* a returned table with a row that counts several input rows per status
C1_Witness ==
    /\ Returned("calculate_turnover")
    /\ \E i \in DOMAIN out : out[i].Atv = 2 /\ out[i].Resc_Vol = 2 /\ out[i].HC_Ref = 6

\* the exit-count column and the rate column derived from it
RatePairs ==
    {<<"Resc_Inv", "TO_Inv">>, <<"Resc_Vol", "TO_Vol">>, <<"Resc_Red", "TO_Red">>,
     <<"Resc_Total", "TO_Total">>, <<"Resc_Total+Red", "TO_Total+Red">>}

\* C2: in every output row of calculate_turnover each rate is a number (never
\* NaN), is 0 when HC_Ref is 0, and otherwise is the multiple of 0.0001 nearest
\* to exit count / HC_Ref; and a call whose filtered input has all four status
\* codes and only parseable dates returns, whatever its denominators are.
C2_Rates ==
    called = "calculate_turnover" =>
        LET f == {r \in DOMAIN df : r.Tipo_HC # "Entrada" /\ r.Tabela # "New"}
        IN  /\ ( /\ {"Atv", "Inv", "Red", "Vol"} \subseteq {r.Tabela : r \in f}
                 /\ \A r \in f : to_datetime(r.Data) # NaT )
               => raised = "none"
            /\ \A i \in DOMAIN out : \A p \in RatePairs :
                  LET n == out[i][p[1]]
                      den == out[i].HC_Ref
                      rate == out[i][p[2]]
                  IN  /\ rate # NaN
                      /\ den = 0 => rate = 0
                      /\ den > 0 => /\ 2 * (10000 * n - rate * den) <= den
                                    /\ 2 * (rate * den - 10000 * n) <= den

\* a returned table with a zero-denominator row next to a row whose rates
\* are proper fractions
C2_Witness ==
    /\ Returned("calculate_turnover")
    /\ \E i, j \in DOMAIN out :
          /\ out[i].HC_Ref = 0 /\ out[i].TO_Total = 0
          /\ out[j].HC_Ref = 5 /\ out[j].TO_Vol = 4000

\* the source column of each year-to-date column
YtdPairs ==
    {<<"Resc_Inv", "Resc_Inv_YTD">>, <<"Resc_Red", "Resc_Red_YTD">>,
     <<"Resc_Vol", "Resc_Vol_YTD">>, <<"Resc_Total", "Resc_Total_YTD">>,
     <<"Resc_Total+Red", "Resc_Total+Red_YTD">>, <<"TO_Inv", "TO_Inv_YTD">>,
     <<"TO_Vol", "TO_Vol_YTD">>, <<"TO_Total", "TO_Total_YTD">>,
     <<"TO_Red", "TO_Red_YTD">>, <<"TO_Total+Red", "TO_Total+Red_YTD">>}

\* C3: in the output of calculate_turnover every *_YTD value equals the sum
\* of its source column over the rows of the same (Ano, group value) whose
\* day-first-parsed date is chronologically at or before the row's date.
C3_YtdChronological ==
    Returned("calculate_turnover") =>
        \A i \in DOMAIN out : \A p \in YtdPairs :
            LET Upto == {j \in DOMAIN out :
                            /\ out[j].Ano = out[i].Ano
                            /\ out[j].Perimetro = out[i].Perimetro
                            /\ TsOrd(to_datetime(out[j].Data))
                                  <= TsOrd(to_datetime(out[i].Data))}
            IN  out[i][p[2]] = SumCol(out, Upto, p[1])

\* the outcome of the call made
Outcome == [raised |-> raised, table |-> out]

\* C4: rows whose headcount type is 'Entrada' never influence either output:
\* the outcome of calculate_turnover and of calculate_tenure is an outcome of
\* the same call on the input with all 'Entrada' rows removed, and every row
\* of a returned table has its (date, group value) in a row that is not
\* 'Entrada'.
C4_EntradaExcluded ==
    LET rest == Filter(df, LAMBDA r : r.Tipo_HC # "Entrada")
    IN  /\ (called = "calculate_turnover" /\ rest # df) =>
              Outcome \in calculate_turnover(rest, "Company", "Tabela", "Tipo_HC", "Data")
        /\ (called = "calculate_tenure" /\ rest # df) =>
              Outcome \in calculate_tenure(rest, "Company", "Tabela", "Tipo_HC", "Data")
        /\ called = "calculate_turnover" =>
              \A i \in DOMAIN out : \E r \in DOMAIN rest :
                    r.Data = out[i].Data /\ r.Company = out[i].Perimetro
        /\ called = "calculate_tenure" =>
              \A i \in DOMAIN out : \E r \in DOMAIN rest :
                    /\ to_datetime(r.Data) # NaT
                    /\ TsToStr(to_datetime(r.Data)) = out[i].Data
                    /\ r.Company = out[i].Perimetro

\* calculate_turnover returned on an input with an 'Entrada' row whose
\* (date, group value) occurs in no other row
C4_Witness ==
    /\ Returned("calculate_turnover")
    /\ \E e \in DOMAIN df :
          /\ e.Tipo_HC = "Entrada"
          /\ \A r \in DOMAIN df : (r.Data = e.Data /\ r.Company = e.Company) => r = e

\* C5: rows whose status is 'New' never contribute to calculate_turnover (its
\* outcome is an outcome of the call on the input without them), whereas in
\* calculate_tenure a 'New' row counts like an 'Atv' row (the outcome is an
\* outcome of the call on the input with every 'New' relabelled 'Atv') and
\* never enters Meses_Mediana_Resc, the median of the rows of any other status.
C5_NewRows ==
    LET noNew == Filter(df, LAMBDA r : r.Tabela # "New")
        AsAtv(r) == IF r.Tabela = "New" THEN [r EXCEPT !.Tabela = "Atv"] ELSE r
        relabelled == [x \in {AsAtv(r) : r \in DOMAIN df} |->
                          SumOver(df, {r \in DOMAIN df : AsAtv(r) = x})]
    IN  /\ (called = "calculate_turnover" /\ noNew # df) =>
              Outcome \in calculate_turnover(noNew, "Company", "Tabela", "Tipo_HC", "Data")
        /\ (called = "calculate_tenure" /\ noNew # df) =>
              Outcome \in calculate_tenure(relabelled, "Company", "Tabela", "Tipo_HC", "Data")
        /\ called = "calculate_tenure" =>
              \A i \in DOMAIN out :
                    LET rs == {r \in DOMAIN df :
                                  /\ r.Tipo_HC # "Entrada"
                                  /\ r.Tabela \notin {"Atv", "New"}
                                  /\ to_datetime(r.Data) # NaT
                                  /\ TsToStr(to_datetime(r.Data)) = out[i].Data
                                  /\ r.Company = out[i].Perimetro}
                        V == [v \in {r.Tenure : r \in rs} |->
                                 SumOver(df, {r \in rs : r.Tenure = v})]
                    IN  out[i].Meses_Mediana_Resc = Median2(V)

\* calculate_tenure returned on an input where a 'New' row shares its
\* (date, group value) with an 'Atv' row and with an exited row
C5_Witness ==
    /\ Returned("calculate_tenure")
    /\ \E n, a, x \in DOMAIN df :
          /\ n.Tabela = "New" /\ a.Tabela = "Atv" /\ x.Tabela = "Vol"
          /\ \A r \in {n, a, x} : r.Tipo_HC = "IC" /\ r.Data = n.Data /\ r.Company = n.Company
          /\ to_datetime(n.Data) # NaT

\* C6: in calculate_turnover a status code without rows counts as 0, also
\* when it occurs in no row of the whole filtered input: on a filtered input
\* that is not empty and whose dates parse the call returns, and for two rows
\* of group 'A' in January, one 'Atv' and one 'Vol', the result is one row
\* with HC_Ref = 2, TO_Vol = 0.5 and TO_Inv = 0.
C6_MissingStatusIsZero ==
    called = "calculate_turnover" =>
        LET f == TurnoverFilter(df, "Tabela", "Tipo_HC")
            R(s) == Record(DayFirst(31, 1, 2023), <<Ascii.A>>, s, "IC")
        IN  /\ (f # EmptyBag /\ \A r \in DOMAIN f : to_datetime(r.Data) # NaT)
                  => raised = "none"
            /\ df = SetToBag({R("Atv"), R("Vol")}) =>
                  /\ Len(out) = 1
                  /\ out[1].HC_Ref = 2 /\ out[1].TO_Vol = 5000 /\ out[1].TO_Inv = 0

\* C7: on an input with no rows, or with no rows left after the filter,
\* calculate_turnover and calculate_tenure return an empty table and raise
\* no error.
C7_EmptyInput ==
    /\ (called = "calculate_turnover" /\ TurnoverFilter(df, "Tabela", "Tipo_HC") = EmptyBag)
          => (raised = "none" /\ out = <<>>)
    /\ (called = "calculate_tenure" /\ \A r \in DOMAIN df : r.Tipo_HC = "Entrada")
          => (raised = "none" /\ out = <<>>)

\* C8 as stated: the table returned by calculate_turnover has exactly one
\* row for each distinct (group value, Ano, Mes) of the filtered input and no
\* other rows.
C8_OneRowPerGroupYearMonth ==
    Returned("calculate_turnover") =>
        LET f == {r \in DOMAIN df : r.Tipo_HC # "Entrada" /\ r.Tabela # "New"}
        IN  /\ \A r \in f :
                  Cardinality({i \in DOMAIN out : /\ out[i].Perimetro = r.Company
                                                  /\ out[i].Ano = r.Ano
                                                  /\ out[i].Mes = r.Mes}) = 1
            /\ \A i \in DOMAIN out : \E r \in f :
                  out[i].Perimetro = r.Company /\ out[i].Ano = r.Ano /\ out[i].Mes = r.Mes

\* C8 amended: the table returned by calculate_turnover has exactly one row
\* for each distinct (date, Ano, Mes, group value) of the filtered input and
\* no other rows, whatever the status codes of the filtered rows are.
C8_OneRowPerDateAndGroup ==
    Returned("calculate_turnover") =>
        LET f == {r \in DOMAIN df : r.Tipo_HC # "Entrada" /\ r.Tabela # "New"}
            Is(i, r) == /\ out[i].Data = r.Data /\ out[i].Ano = r.Ano
                        /\ out[i].Mes = r.Mes /\ out[i].Perimetro = r.Company
        IN  /\ \A r \in f : Cardinality({i \in DOMAIN out : Is(i, r)}) = 1
            /\ \A i \in DOMAIN out : \E r \in f : Is(i, r)

\* a returned table with two rows of the same (group value, Ano, Mes), one
\* of them for a date whose only filtered row has a status outside
\* Atv/Inv/Red/Vol
C8_Witness ==
    /\ Returned("calculate_turnover")
    /\ \E i, j \in DOMAIN out :
          /\ i # j
          /\ out[i].Perimetro = out[j].Perimetro
          /\ out[i].Ano = out[j].Ano /\ out[i].Mes = out[j].Mes
          /\ out[i].HC_Ref = 0
          /\ \E r \in DOMAIN df : r.Data = out[i].Data /\ r.Tabela = "Other" /\ r.Tipo_HC = "IC"

\* C9: in the table returned by one call of calculate_turnover, and by one
\* call of calculate_tenure, the rows are in non-decreasing order of their
\* date (the day-first text of the turnover table, the ISO text of the tenure
\* table, whose text order is the chronological order).
C9_SortedByDate ==
    /\ Returned("calculate_turnover") =>
          \A i, j \in DOMAIN out :
              i < j => TsOrd(to_datetime(out[i].Data)) <= TsOrd(to_datetime(out[j].Data))
    /\ Returned("calculate_tenure") =>
          \A i, j \in DOMAIN out : i < j => ~StrLess(out[j].Data, out[i].Data)

\* a returned turnover table with two dates whose text order is the reverse
\* of their chronological order
C9_Witness ==
    /\ Returned("calculate_turnover")
    /\ \E i, j \in DOMAIN out :
          /\ i < j
          /\ StrLess(out[j].Data, out[i].Data)
          /\ TsOrd(to_datetime(out[i].Data)) < TsOrd(to_datetime(out[j].Data))

\* C10: on an input with at least one row that is not 'Entrada' and has a
\* parseable date, calculate_tenure returns exactly one row per (date, group
\* value) of those rows, the rows with an unparseable date being dropped
\* without error; Meses_Mediana_Atv is the median of Tenure over the group's
\* 'Atv' and 'New' rows, Meses_Mediana_Resc over its other rows, and a median
\* is null exactly when its bucket has no rows.
C10_TenureTable ==
    called = "calculate_tenure" =>
        LET f == {r \in DOMAIN df : r.Tipo_HC # "Entrada" /\ to_datetime(r.Data) # NaT}
            Is(i, r) == /\ out[i].Data = TsToStr(to_datetime(r.Data))
                        /\ out[i].Perimetro = r.Company
            Active(r) == r.Tabela \in {"Atv", "New"}
            Med(i, rs) == Median2([v \in {r.Tenure : r \in rs} |->
                                      SumOver(df, {r \in rs : r.Tenure = v})])
        IN  f # {} =>
              /\ raised = "none"
              /\ \A r \in f : Cardinality({i \in DOMAIN out : Is(i, r)}) = 1
              /\ \A i \in DOMAIN out :
                    LET cell == {r \in f : Is(i, r)}
                        act == {r \in cell : Active(r)}
                    IN  /\ cell # {}
                        /\ out[i].Meses_Mediana_Atv = Med(i, act)
                        /\ out[i].Meses_Mediana_Resc = Med(i, cell \ act)
                        /\ (out[i].Meses_Mediana_Atv = NaN) <=> (act = {})
                        /\ (out[i].Meses_Mediana_Resc = NaN) <=> (cell \ act = {})

\* the individual call that a make_* function repeats, on the same input
\* and with the same selectors
IndividualCall(fn, group) ==
    IF fn = "make_turnover_table"
    THEN calculate_turnover(df, group, args.status_column, args.hc_type_column,
                            args.date_column)
    ELSE calculate_tenure(df, group, args.status_column, args.hc_type_column,
                          args.date_column)

\* t is a table returned by the call for the first column of group_type,
\* rows and columns as returned, followed by one for the second column, and
\* so on to the end of t
RECURSIVE InListOrder(_, _, _)
InListOrder(t, fn, group_type) ==
    IF group_type = <<>> THEN t = <<>>
    ELSE \E o \in IndividualCall(fn, Head(group_type)) :
            /\ o.raised = "none"
            /\ Len(o.table) <= Len(t)
            /\ SubSeq(t, 1, Len(o.table)) = o.table
            /\ InListOrder(SubSeq(t, Len(o.table) + 1, Len(t)), fn,
                           Tail(group_type))

\* the result of a make_* function is that of its individual calls: their
\* tables one after the other when all return, and the error of the first
\* one that raises otherwise
FanOut(fn) ==
    LET group_type == args.group_type
        raising == {i \in DOMAIN group_type :
                        \E o \in IndividualCall(fn, group_type[i]) : o.raised # "none"}
    IN  IF raising = {}
        THEN raised = "none" /\ InListOrder(out, fn, group_type)
        ELSE LET i == CHOOSE k \in raising : \A j \in raising : k <= j
             IN  Raise(raised) \in IndividualCall(fn, group_type[i]) /\ out = <<>>

\* C11: for every input table and every list of its grouping columns,
\* make_turnover_table and make_tenure_table return the rows of
\* calculate_turnover and calculate_tenure called once per column on the
\* same input, in list order, each sub-table's rows and columns as returned
\* by its call, so the row count is the sum of the calls' row counts: no
\* deduplication, no filtering across groups, no call affected by an
\* earlier one. For the empty list that is the table without rows.
C11_FanOut ==
    \A fn \in {"make_turnover_table", "make_tenure_table"} :
        called = fn => FanOut(fn)

\* C11 for the lists that name at least one grouping column (an empty list
\* makes pd.concat raise ValueError).
C11_FanOutNonEmpty ==
    \A fn \in {"make_turnover_table", "make_tenure_table"} :
        (called = fn /\ args.group_type # <<>>) => FanOut(fn)

\* a table of three companies' rows under 'VP' then 'Company': one row for
\* the VP, then one per company
C11_Witness ==
    /\ called = "make_turnover_table"
    /\ raised = "none"
    /\ args.group_type = <<"VP", "Company">>
    /\ Len(out) = 3
    /\ out[1].Perimetro = <<Ascii.A + 21>>
    /\ out[2].Perimetro = <<Ascii.A>>
    /\ out[3].Perimetro = <<Ascii.A + 1>>

\* C12: calculate_turnover works for any column names passed as selectors:
\* on a table whose status, headcount-type, date and group columns carry
\* other names than 'Tabela', 'Tipo_HC', 'Data' and 'Company', called with
\* those names, it has the outcome of the default call on the same table
\* under the default names.
C12_AnyColumnNames ==
    called = "calculate_turnover" =>
        Outcome \in calculate_turnover(df, "Company", "Tabela", "Tipo_HC", "Data")

\* C13: export_to_sheets continues on error per destination: a failure of
\* any of the four requests made for a destination (opening the
\* spreadsheet, selecting the tab, clearing the range, writing the range) is
\* caught and reported, the call does not raise, and every destination of
\* the list is processed, its range cleared before it is written.
C13_ContinueOnError ==
    /\ sheets.status # "raised"
    /\ \A i \in DOMAIN sheets.done :
        LET destiny == sheets.done[i]
        IN  ~(destiny.opened /\ destiny.selected /\ destiny.cleared
              /\ destiny.written) => destiny.printed # <<>>
    /\ sheets.status = "returned" => Len(sheets.done) = sheets.n_exports

\* C14: in calculate_turnover a row with an unparseable date is never
\* silently dropped: whenever the filtered input has a row whose date does
\* not parse as a day-first date, the call returns no table and fails with
\* the error of the date-parsing step (the ValueError of pd.to_datetime).
C14_UnparseableDateFails ==
    (called = "calculate_turnover" /\ args = DefaultArgs) =>
        LET f == {r \in DOMAIN df : r.Tipo_HC # "Entrada" /\ r.Tabela # "New"}
        IN  (\E r \in f : to_datetime(r.Data) = NaT) =>
                (raised = "ValueError" /\ out = <<>>)

====
